---- MODULE Spec2Model ----
(***************************************************************************)
(* Task management plugin (src/main.py): a task store and a points store,  *)
(* each a JSON list rewritten in full by save_data, and the command        *)
(* handlers of AdvancedTaskSystem that load, change and save them.         *)
(*                                                                         *)
(* Every handler runs its load .. save section without an await or a yield *)
(* in between (the first yield of a handler follows its last save), so one *)
(* handler invocation is one atomic action of this model.                  *)
(*                                                                         *)
(* Strings the code takes apart (task ids, dates) are sequences of         *)
(* one-character strings; strings the code only compares (user ids, names, *)
(* contents, statuses) are TLA+ strings.  Reply texts are named by kind.   *)
(***************************************************************************)
EXTENDS Integers, Sequences, FiniteSets, TLC

VARIABLES
    tasks,   \* content of TASKS_FILE: the list of task records
    points,  \* content of POINTS_FILE: the list of balance records
    today,   \* the date datetime.now() reports, an index into Days
    last,    \* the last handler invocation: command, caller, argument, reply
    running  \* per handler slot: the invocation in flight, when the host
             \* runs handlers in parallel (see "Overlapping invocations")

vars == <<tasks, points, today, last, running>>

----------------------------------------------------------------------------
(* Bounds of the model *)

\* Create is offered while the store holds fewer tasks than this.
MaxTasks == 2

\* The same, for the specification that uses up one day's sequence numbers,
\* and the number of tasks already created that day when its runs start.
MaxDayTasks == 1001
DayTasksAtStart == 997

\* The dates a run may take place on; a run stays within one date, the
\* first one unless the specification says otherwise.
Days == << [month |-> 7, day |-> 15], [month |-> 12, day |-> 31] >>

\* Callers as the host reports them: sender id and sender name ("" when the
\* host has no name).  The first is the configured admin; "u1" is seen under
\* two different names.
Senders ==
    { [id |-> "2195556927", name |-> "Ann"],
      [id |-> "u1", name |-> "Bob"],
      [id |-> "u1", name |-> ""] }

\* The callers that publish tasks (no handler branches on the publisher).
Publishers == { [id |-> "2195556927", name |-> "Ann"] }

Contents == {"write the manual"}

----------------------------------------------------------------------------
(* Configuration and literals of the program *)

admin_list == {"2195556927"}
TASK_PERMISSION_MODE == 0
TASK_ID_LEN == 7
SERIAL_WIDTH == 3
REWARD == 1
TOP_N == 10

NONE == "<None>"
UNKNOWN_USER == "<unknown user>"
LEGACY_USER == "<legacy user>"
LEGACY_PUBLISHER == "<legacy publisher>"

----------------------------------------------------------------------------
(* Python string and number primitives the handlers use *)

DIGITS == << "0", "1", "2", "3", "4", "5", "6", "7", "8", "9" >>

DigitSet == { DIGITS[i] : i \in 1..10 }

DigitVal(c) == (CHOOSE i \in 1..10 : DIGITS[i] = c) - 1

\* str.isdigit(): non-empty and every character a digit
isdigit(s) == Len(s) > 0 /\ \A i \in 1..Len(s) : s[i] \in DigitSet

\* int(s) for a string of digits
RECURSIVE int(_)
int(s) ==
    IF Len(s) = 0 THEN 0
    ELSE int(SubSeq(s, 1, Len(s) - 1)) * 10 + DigitVal(s[Len(s)])

\* str(n) for n >= 0
RECURSIVE str(_)
str(n) ==
    IF n < 10 THEN << DIGITS[n + 1] >>
    ELSE Append(str(n \div 10), DIGITS[(n % 10) + 1])

\* format(n, "0<w>d"): zero-padded to AT LEAST w characters
format_0d(n, w) ==
    LET s == str(n)
    IN  IF Len(s) >= w THEN s ELSE [i \in 1..(w - Len(s)) |-> "0"] \o s

\* s.startswith(p)
startswith(s, p) == Len(s) >= Len(p) /\ SubSeq(s, 1, Len(p)) = p

\* s[k:] with k counted from 0
slice_from(s, k) == SubSeq(s, k + 1, Len(s))

\* s[:k]
slice_to(s, k) == SubSeq(s, 1, IF k < Len(s) THEN k ELSE Len(s))

\* s[j:k]
slice(s, j, k) == SubSeq(s, j + 1, IF k < Len(s) THEN k ELSE Len(s))

\* datetime.now().strftime("%m%d")
strftime_md(d) == format_0d(d.month, 2) \o format_0d(d.day, 2)

\* max(seq[lo..hi], default=0) of a sequence of naturals
RECURSIVE max_between(_, _, _)
max_between(seq, lo, hi) ==
    IF lo > hi THEN 0
    ELSE IF lo = hi THEN seq[lo]
    ELSE LET mid == (lo + hi) \div 2
             a == max_between(seq, lo, mid)
             b == max_between(seq, mid + 1, hi)
         IN  IF a >= b THEN a ELSE b

max_default0(seq) == max_between(seq, 1, Len(seq))

\* index of the first element of seq that satisfies P, 0 if none
FirstIdx(seq, P(_)) ==
    LET hits == { i \in 1..Len(seq) : P(seq[i]) }
    IN  IF hits = {} THEN 0 ELSE CHOOSE i \in hits : \A j \in hits : i <= j

----------------------------------------------------------------------------
(* Identity and validation *)

get_user_info(sender) ==
    [id |-> sender.id,
     name |-> IF sender.name = "" THEN UNKNOWN_USER ELSE sender.name]

generate_task_id(stored, now) ==
    LET date_str == strftime_md(now)
        same_day_tasks ==
            SelectSeq(stored,
                LAMBDA t : /\ startswith(t.task_id, date_str)
                           /\ Len(t.task_id) = TASK_ID_LEN
                           /\ isdigit(slice_from(t.task_id, 4)))
        max_serial ==
            max_default0([i \in 1..Len(same_day_tasks) |->
                            int(slice_from(same_day_tasks[i].task_id, 4))])
    IN  date_str \o format_0d(max_serial + 1, SERIAL_WIDTH)

validate_task_id(task_id) ==
    /\ Len(task_id) = TASK_ID_LEN
    /\ isdigit(task_id)
    /\ 1 <= int(slice_to(task_id, 2))
    /\ int(slice_to(task_id, 2)) <= 12
    /\ 1 <= int(slice(task_id, 2, 4))
    /\ int(slice(task_id, 2, 4)) <= 31

----------------------------------------------------------------------------
(* The record of the last invocation *)

NoArg == << >>

Invocation(op, sender, arg, reply, value) ==
    [op |-> op, caller |-> sender.id, arg |-> arg, reply |-> reply,
     value |-> value]

\* The handler slots of the host, and a slot in which nothing runs and
\* nothing has run.
Slots == {1, 2}

Idle == [pc |-> "idle", op |-> "none", caller |-> NONE, arg |-> NoArg,
         reply |-> "none", value |-> 0]

Init ==
    /\ tasks = << >>
    /\ points = << >>
    /\ today = 1
    /\ last = [op |-> "init", caller |-> NONE, arg |-> NoArg,
               reply |-> "none", value |-> 0]
    /\ running = [p \in Slots |-> Idle]

----------------------------------------------------------------------------
(* Task lifecycle handlers *)

Reply(op, sender, arg, reply, value) ==
    /\ last' = Invocation(op, sender, arg, reply, value)
    /\ UNCHANGED <<tasks, points, today, running>>

\* fault variant: the admin check lets every caller through
is_admin_anyone(user) == TRUE

is_admin(user) == user.id \in admin_list

new_task(task_id, user, content, now) ==
    [task_id |-> task_id,
     publisher_id |-> user.id,
     publisher_name |-> user.name,
     content |-> content,
     publish_time |-> now,
     status |-> "pending",
     accepted_by_id |-> NONE,
     accepted_by_name |-> NONE]

created(stored, task_id, user, content, now) ==
    Append(stored, new_task(task_id, user, content, now))

create_task(sender, content) ==
    LET user == get_user_info(sender)
    IN  IF TASK_PERMISSION_MODE = 1 /\ ~is_admin(user)
        THEN Reply("create_task", sender, NoArg, "AdminOnly", 0)
        ELSE LET task_id == generate_task_id(tasks, Days[today])
             IN  /\ tasks' = created(tasks, task_id, user, content,
                                     Days[today])
                 /\ last' = Invocation("create_task", sender, NoArg,
                                       "Created", task_id)
                 /\ UNCHANGED <<points, today, running>>

\* fault variants: the status test of Claim is missing, or lets a task
\* that is already claimed be claimed again
claimable_any_status(t, task_id) == t.task_id = task_id

claimable_or_accepted(t, task_id) ==
    t.task_id = task_id /\ t.status \in {"pending", "accepted"}

claimable(t, task_id) == t.task_id = task_id /\ t.status = "pending"

\* fault variant: Claim does not store the claimant's id
claimed_without_id(t, user) ==
    [t EXCEPT !.status = "accepted", !.accepted_by_name = user.name]

claimed(t, user) ==
    [t EXCEPT !.status = "accepted",
              !.accepted_by_id = user.id,
              !.accepted_by_name = user.name]

accept_task(sender, task_id) ==
    IF ~validate_task_id(task_id)
    THEN Reply("accept_task", sender, task_id, "BadIdFormat", 0)
    ELSE LET user == get_user_info(sender)
             i == FirstIdx(tasks, LAMBDA t : claimable(t, task_id))
         IN  IF i # 0
             THEN /\ tasks' = [tasks EXCEPT ![i] = claimed(@, user)]
                  /\ last' = Invocation("accept_task", sender, task_id,
                                        "Accepted", 0)
                  /\ UNCHANGED <<points, today, running>>
             ELSE Reply("accept_task", sender, task_id, "NotClaimable", 0)

submittable(t, task_id) == t.task_id = task_id /\ t.status = "accepted"

\* fault variant: the publisher may submit as well as the claimant
not_your_task_unless_publisher(t, user) ==
    t.accepted_by_id # user.id /\ t.publisher_id # user.id

not_your_task(t, user) == t.accepted_by_id # user.id

\* fault variant: Submit refreshes the claimant's name
submitted_renamed(t, user) ==
    [t EXCEPT !.status = "pending_review", !.accepted_by_name = user.name]

submitted(t, user) == [t EXCEPT !.status = "pending_review"]

user_complete(sender, task_id) ==
    IF ~validate_task_id(task_id)
    THEN Reply("user_complete", sender, task_id, "BadIdFormat", 0)
    ELSE LET user == get_user_info(sender)
             i == FirstIdx(tasks, LAMBDA t : submittable(t, task_id))
         IN  IF i # 0
             THEN IF not_your_task(tasks[i], user)
                  THEN Reply("user_complete", sender, task_id,
                             "NotYourTask", 0)
                  ELSE /\ tasks' = [tasks EXCEPT ![i] = submitted(@, user)]
                       /\ last' = Invocation("user_complete", sender,
                                             task_id, "Submitted", 0)
                       /\ UNCHANGED <<points, today, running>>
             ELSE Reply("user_complete", sender, task_id, "InvalidTask", 0)

\* fault variant: the status test of Review is missing
reviewable_any_status(t, task_id) == t.task_id = task_id

reviewable(t, task_id) == t.task_id = task_id /\ t.status = "pending_review"

\* fault variant: crediting overwrites the name of an existing record
credit_appending(balances, completer_id, name) ==
    LET appended ==
            Append(balances,
                   [user_id |-> completer_id, name |-> name, points |-> 0])
        q == Len(appended)
    IN  [list |-> [appended EXCEPT ![q].points = @ + REWARD], at |-> q]

credit_renaming(balances, completer_id, name) ==
    LET p == FirstIdx(balances, LAMBDA r : r.user_id = completer_id)
        appended ==
            IF p = 0
            THEN Append(balances,
                     [user_id |-> completer_id, name |-> name, points |-> 0])
            ELSE balances
        q == IF p = 0 THEN Len(appended) ELSE p
    IN  [list |-> [appended EXCEPT ![q].points = @ + REWARD,
                                   ![q].name = name],
         at |-> q]

\* the points list after crediting the completer, and the index of the
\* completer's record in it
credit(balances, completer_id, name) ==
    LET p == FirstIdx(balances, LAMBDA r : r.user_id = completer_id)
        appended ==
            IF p = 0
            THEN Append(balances,
                     [user_id |-> completer_id, name |-> name, points |-> 0])
            ELSE balances
        q == IF p = 0 THEN Len(appended) ELSE p
    IN  [list |-> [appended EXCEPT ![q].points = @ + REWARD], at |-> q]

review_task_admin_first(sender, task_id) ==
    IF ~is_admin(get_user_info(sender))
    THEN Reply("review_task", sender, task_id, "Forbidden", 0)
    ELSE IF ~validate_task_id(task_id)
    THEN Reply("review_task", sender, task_id, "BadIdFormat", 0)
    ELSE LET i == FirstIdx(tasks, LAMBDA t : reviewable(t, task_id))
         IN  IF i = 0
             THEN Reply("review_task", sender, task_id, "InvalidTask", 0)
             ELSE LET c == credit(points, tasks[i].accepted_by_id,
                                  tasks[i].accepted_by_name)
                  IN  /\ tasks' = [tasks EXCEPT ![i].status = "completed"]
                      /\ points' = c.list
                      /\ last' = Invocation("review_task", sender, task_id,
                                            "Approved", c.list[c.at].points)
                      /\ UNCHANGED <<today, running>>

review_task(sender, task_id) ==
    IF ~validate_task_id(task_id)
    THEN Reply("review_task", sender, task_id, "BadIdFormat", 0)
    ELSE LET user == get_user_info(sender)
         IN  IF ~is_admin(user)
             THEN Reply("review_task", sender, task_id, "Forbidden", 0)
             ELSE LET i == FirstIdx(tasks, LAMBDA t : reviewable(t, task_id))
                  IN  IF i = 0
                      THEN Reply("review_task", sender, task_id,
                                 "InvalidTask", 0)
                      ELSE LET c == credit(points, tasks[i].accepted_by_id,
                                           tasks[i].accepted_by_name)
                           IN  /\ tasks' = [tasks EXCEPT
                                              ![i].status = "completed"]
                               /\ points' = c.list
                               /\ last' = Invocation("review_task", sender,
                                             task_id, "Approved",
                                             c.list[c.at].points)
                               /\ UNCHANGED <<today, running>>

----------------------------------------------------------------------------
(* Start of the plugin: migration of records of the old format.  A record   *)
(* is a function from field names to values, so that a field can be absent. *)

WithField(t, f, v) == [g \in (DOMAIN t) \cup {f} |-> IF g = f THEN v ELSE t[g]]

WithoutField_keeping(t, f) == t

WithoutField(t, f) == [g \in (DOMAIN t) \ {f} |-> t[g]]

NeedsSplit(t) == "accepted_by" \in DOMAIN t /\ "accepted_by_id" \notin DOMAIN t

migrate_task(t) ==
    LET t1 == IF NeedsSplit(t)
              THEN WithoutField(
                       WithField(WithField(t, "accepted_by_id", t.accepted_by),
                                 "accepted_by_name", LEGACY_USER),
                       "accepted_by")
              ELSE t
    IN  IF "publisher_name" \notin DOMAIN t1
        THEN WithField(t1, "publisher_name", LEGACY_PUBLISHER)
        ELSE t1

migrate_updated(stored) ==
    \E i \in 1..Len(stored) :
        NeedsSplit(stored[i]) \/ "publisher_name" \notin DOMAIN stored[i]

migrate_old_data ==
    /\ tasks' = IF migrate_updated(tasks)
                THEN [i \in 1..Len(tasks) |-> migrate_task(tasks[i])]
                ELSE tasks
    /\ last' = [op |-> "migrate_old_data", caller |-> NONE, arg |-> NoArg,
                reply |-> IF migrate_updated(tasks) THEN "Saved"
                          ELSE "NotSaved",
                value |-> 0]
    /\ UNCHANGED <<points, today, running>>

----------------------------------------------------------------------------
(* Queries *)

RECURSIVE my_tasks(_, _)
my_tasks(stored, user) ==
    IF stored = << >> THEN << >>
    ELSE LET t == stored[Len(stored)]
             entry(type) == [type |-> type, id |-> t.task_id,
                             status |-> t.status, content |-> t.content]
             published ==
                 IF t.publisher_id = user.id /\ t.status # "completed"
                 THEN << entry("published") >> ELSE << >>
             accepted ==
                 IF t.accepted_by_id = user.id /\ t.status # "completed"
                 THEN << entry("accepted") >> ELSE << >>
         IN  my_tasks(SubSeq(stored, 1, Len(stored) - 1), user)
                 \o published \o accepted

list_tasks(sender) ==
    LET found == my_tasks(tasks, get_user_info(sender))
    IN  Reply("list_tasks", sender, NoArg,
              IF found = << >> THEN "NoTasks" ELSE "MyTasks", found)

task_group(stored, status) ==
    LET g == SelectSeq(stored, LAMBDA t : t.status = status)
    IN  [i \in 1..Len(g) |-> g[i].task_id]

list_all_tasks(sender) ==
    Reply("list_all_tasks", sender, NoArg,
          IF tasks = << >> THEN "NoTasks" ELSE "AllTasks",
          [s \in {"pending", "accepted", "pending_review", "completed"}
             |-> task_group(tasks, s)])

check_points_creating(sender) ==
    LET user == get_user_info(sender)
        p == FirstIdx(points, LAMBDA r : r.user_id = user.id)
    IN  /\ last' = Invocation("check_points", sender, NoArg, "MyPoints",
                              IF p = 0 THEN 0 ELSE points[p].points)
        /\ points' = IF p = 0
                     THEN Append(points, [user_id |-> user.id,
                                          name |-> user.name, points |-> 0])
                     ELSE points
        /\ UNCHANGED <<tasks, today, running>>

check_points(sender) ==
    LET user == get_user_info(sender)
        p == FirstIdx(points, LAMBDA r : r.user_id = user.id)
    IN  Reply("check_points", sender, NoArg, "MyPoints",
              IF p = 0 THEN 0 ELSE points[p].points)

RECURSIVE sorted_desc_unstable(_)
sorted_desc_unstable(data) ==
    IF data = << >> THEN << >>
    ELSE LET r == data[Len(data)]
             s == sorted_desc_unstable(SubSeq(data, 1, Len(data) - 1))
             k == Cardinality({ i \in 1..Len(s) : s[i].points > r.points })
         IN  SubSeq(s, 1, k) \o << r >> \o SubSeq(s, k + 1, Len(s))

\* sorted(data, key=points, reverse=True): stable, largest first
RECURSIVE sorted_desc(_)
sorted_desc(data) ==
    IF data = << >> THEN << >>
    ELSE LET r == data[Len(data)]
             s == sorted_desc(SubSeq(data, 1, Len(data) - 1))
             k == Cardinality({ i \in 1..Len(s) : s[i].points >= r.points })
         IN  SubSeq(s, 1, k) \o << r >> \o SubSeq(s, k + 1, Len(s))

points_rank(sender) ==
    LET sorted_points == slice_to(sorted_desc(points), TOP_N)
    IN  Reply("points_rank", sender, NoArg,
              IF sorted_points = << >> THEN "NoRank" ELSE "Rank",
              sorted_points)

show_help(sender) ==
    Reply("show_help", sender, NoArg, "Help",
          generate_task_id(tasks, Days[today]))

----------------------------------------------------------------------------
(* Arguments callers send as a task id: the ids in the store, the id the    *)
(* next Create would give (well-formed, not stored), and malformed strings. *)

MalformedIds == { << "1", "3", "1", "5", "0", "0", "1" >> }

TaskIdArgs ==
    { tasks[i].task_id : i \in 1..Len(tasks) }
        \cup { generate_task_id(tasks, Days[today]) }
        \cup MalformedIds

Next ==
    \/ /\ Len(tasks) < MaxTasks
       /\ \E s \in Publishers, c \in Contents : create_task(s, c)
    \/ \E s \in Senders, t \in TaskIdArgs : accept_task(s, t)
    \/ \E s \in Senders, t \in TaskIdArgs : user_complete(s, t)
    \/ \E s \in Senders, t \in TaskIdArgs : review_task(s, t)
    \/ migrate_old_data
    \/ \E s \in Senders : list_tasks(s)
    \/ \E s \in Senders : list_all_tasks(s)
    \/ \E s \in Senders : check_points(s)
    \/ \E s \in Senders : points_rank(s)
    \/ \E s \in Senders : show_help(s)

Spec == Init /\ [][Next]_vars

\* A busy day: the store after n Create commands of one publisher, starting
\* from the empty store.
RECURSIVE more_creates(_, _)
more_creates(stored, n) ==
    IF n = 0 THEN stored
    ELSE IF n = 1
    THEN created(stored, generate_task_id(stored, Days[1]),
                 get_user_info(CHOOSE s \in Publishers : TRUE),
                 CHOOSE c \in Contents : TRUE, Days[1])
    ELSE LET half == more_creates(stored, n \div 2)
         IN  IF Len(half) >= 0 THEN more_creates(half, n - (n \div 2))
             ELSE half

after_creates(n) == more_creates(<< >>, n)

\* The runs of a day on which DayTasksAtStart tasks have been created already:
\* callers go on creating tasks and asking for help.
InitFullDay ==
    /\ tasks = after_creates(DayTasksAtStart)
    /\ points = << >>
    /\ today = 1
    /\ last = [op |-> "init", caller |-> NONE, arg |-> NoArg,
               reply |-> "none", value |-> 0]
    /\ running = [p \in Slots |-> Idle]

NextFullDay ==
    \/ /\ Len(tasks) < MaxDayTasks
       /\ \E s \in Senders, c \in Contents : create_task(s, c)
    \/ \E s \in Senders : show_help(s)

SpecFullDay == InitFullDay /\ [][NextFullDay]_vars

----------------------------------------------------------------------------
(* Migration on every task list of up to MaxLegacyTasks records, each with  *)
(* or without the legacy field accepted_by and with or without each of the  *)
(* fields migration adds.                                                   *)

MaxLegacyTasks == 2

OptionalFields ==
    { "accepted_by", "accepted_by_id", "accepted_by_name", "publisher_name" }

legacy_task ==
    [task_id |-> << "0", "7", "1", "5", "0", "0", "1" >>,
     content |-> "write the manual",
     publisher_id |-> "2195556927",
     publish_time |-> Days[1],
     status |-> "accepted",
     accepted_by |-> "u0",
     accepted_by_id |-> "u1",
     accepted_by_name |-> "Bob",
     publisher_name |-> "Ann"]

legacy_tasks ==
    { [g \in (DOMAIN legacy_task) \ absent |-> legacy_task[g]] :
          absent \in SUBSET OptionalFields }

InitMigrate ==
    /\ \E n \in 0..MaxLegacyTasks : tasks \in [1..n -> legacy_tasks]
    /\ points = << >>
    /\ today = 1
    /\ last = [op |-> "init", caller |-> NONE, arg |-> NoArg,
               reply |-> "none", value |-> 0]
    /\ running = [p \in Slots |-> Idle]

NextMigrate == migrate_old_data

SpecMigrate == InitMigrate /\ [][NextMigrate]_vars

----------------------------------------------------------------------------
(* The leaderboard on every points list of up to MaxRankLen records: the    *)
(* records are those of different users, as review_task keeps them, each    *)
(* with a positive balance.                                                 *)

MaxRankLen == 11

RankPoints == {1, 2}

rank_user(i) == "r" \o ToString(i)

InitRank ==
    /\ tasks = << >>
    /\ \E n \in 0..MaxRankLen :
           \E f \in [1..n -> RankPoints] :
               points = [i \in 1..n |->
                            [user_id |-> rank_user(i), name |-> rank_user(i),
                             points |-> f[i]]]
    /\ today = 1
    /\ last = [op |-> "init", caller |-> NONE, arg |-> NoArg,
               reply |-> "none", value |-> 0]
    /\ running = [p \in Slots |-> Idle]

NextRank == \E s \in Publishers : points_rank(s)

SpecRank == InitRank /\ [][NextRank]_vars

----------------------------------------------------------------------------
(* Overlapping invocations.  Within one event loop a handler is atomic (see *)
(* the head of the module).  When the host runs handlers in parallel, in    *)
(* threads or in processes that share the data directory, nothing in the    *)
(* handlers keeps two of them apart: the steps of a handler are then its    *)
(* accesses to the two files, each taken from one call of load_data or      *)
(* save_data, with the computation that precedes it.                        *)

\* The callers of overlapping invocations.
OverlapSenders ==
    { [id |-> "2195556927", name |-> "Ann"],
      [id |-> "u1", name |-> "Bob"] }

At(p, pc) == running[p].pc = pc

\* slot p holds an invocation that has loaded the task file
Loaded(pc, op, sender, arg, content) ==
    [pc |-> pc, op |-> op, caller |-> sender.id, arg |-> arg,
     user |-> get_user_info(sender), content |-> content,
     tasks |-> tasks, points |-> << >>, task_id |-> NoArg, value |-> 0]

Step(p, local) ==
    /\ running' = [running EXCEPT ![p] = local]
    /\ UNCHANGED last

\* the handler in slot p replies and ends
Done(p, op, caller, arg, reply, value) ==
    /\ running' = [running EXCEPT ![p] =
                     [pc |-> "idle", op |-> op, caller |-> caller,
                      arg |-> arg, reply |-> reply, value |-> value]]
    /\ last' = [op |-> op, caller |-> caller, arg |-> arg, reply |-> reply,
                value |-> value]

DoneAs(p, reply, value) ==
    Done(p, running[p].op, running[p].caller, running[p].arg, reply, value)

create_task_load(p, sender, content) ==
    /\ At(p, "idle")
    /\ UNCHANGED <<tasks, points, today>>
    /\ IF TASK_PERMISSION_MODE = 1 /\ ~is_admin(get_user_info(sender))
       THEN Done(p, "create_task", sender.id, NoArg, "AdminOnly", 0)
       ELSE Step(p, Loaded("create_loaded", "create_task", sender, NoArg,
                           content))

create_task_generate_reserving(p) ==
    /\ At(p, "create_loaded")
    /\ LET q == CHOOSE other \in Slots : other # p
           reserved ==
               IF At(q, "create_generated")
               THEN created(tasks, running[q].task_id, running[q].user,
                            running[q].content, Days[today])
               ELSE tasks
       IN  Step(p, [running[p] EXCEPT
                      !.pc = "create_generated",
                      !.task_id = generate_task_id(reserved, Days[today])])
    /\ UNCHANGED <<tasks, points, today>>

create_task_generate(p) ==
    /\ At(p, "create_loaded")
    /\ Step(p, [running[p] EXCEPT
                  !.pc = "create_generated",
                  !.task_id = generate_task_id(tasks, Days[today])])
    /\ UNCHANGED <<tasks, points, today>>

create_task_save(p) ==
    /\ At(p, "create_generated")
    /\ tasks' = created(running[p].tasks, running[p].task_id,
                        running[p].user, running[p].content, Days[today])
    /\ DoneAs(p, "Created", running[p].task_id)
    /\ UNCHANGED <<points, today>>

accept_task_load(p, sender, task_id) ==
    /\ At(p, "idle")
    /\ UNCHANGED <<tasks, points, today>>
    /\ IF ~validate_task_id(task_id)
       THEN Done(p, "accept_task", sender.id, task_id, "BadIdFormat", 0)
       ELSE Step(p, Loaded("accept_loaded", "accept_task", sender, task_id,
                           NONE))

accept_task_save_fresh(p) ==
    /\ At(p, "accept_loaded")
    /\ LET local == running[p]
           i == FirstIdx(tasks, LAMBDA t : claimable(t, local.arg))
       IN  IF i # 0
           THEN /\ tasks' = [tasks EXCEPT ![i] = claimed(@, local.user)]
                /\ DoneAs(p, "Accepted", 0)
           ELSE /\ UNCHANGED tasks
                /\ DoneAs(p, "NotClaimable", 0)
    /\ UNCHANGED <<points, today>>

accept_task_save(p) ==
    /\ At(p, "accept_loaded")
    /\ LET local == running[p]
           i == FirstIdx(local.tasks, LAMBDA t : claimable(t, local.arg))
       IN  IF i # 0
           THEN /\ tasks' = [local.tasks EXCEPT
                               ![i] = claimed(@, local.user)]
                /\ DoneAs(p, "Accepted", 0)
           ELSE /\ UNCHANGED tasks
                /\ DoneAs(p, "NotClaimable", 0)
    /\ UNCHANGED <<points, today>>

user_complete_load(p, sender, task_id) ==
    /\ At(p, "idle")
    /\ UNCHANGED <<tasks, points, today>>
    /\ IF ~validate_task_id(task_id)
       THEN Done(p, "user_complete", sender.id, task_id, "BadIdFormat", 0)
       ELSE Step(p, Loaded("complete_loaded", "user_complete", sender,
                           task_id, NONE))

user_complete_save(p) ==
    /\ At(p, "complete_loaded")
    /\ LET local == running[p]
           i == FirstIdx(local.tasks, LAMBDA t : submittable(t, local.arg))
       IN  IF i # 0
           THEN IF not_your_task(local.tasks[i], local.user)
                THEN /\ UNCHANGED tasks
                     /\ DoneAs(p, "NotYourTask", 0)
                ELSE /\ tasks' = [local.tasks EXCEPT
                                    ![i] = submitted(@, local.user)]
                     /\ DoneAs(p, "Submitted", 0)
           ELSE /\ UNCHANGED tasks
                /\ DoneAs(p, "InvalidTask", 0)
    /\ UNCHANGED <<points, today>>

review_task_load_tasks(p, sender, task_id) ==
    /\ At(p, "idle")
    /\ UNCHANGED <<tasks, points, today>>
    /\ IF ~validate_task_id(task_id)
       THEN Done(p, "review_task", sender.id, task_id, "BadIdFormat", 0)
       ELSE IF ~is_admin(get_user_info(sender))
       THEN Done(p, "review_task", sender.id, task_id, "Forbidden", 0)
       ELSE Step(p, Loaded("review_loaded_tasks", "review_task", sender,
                           task_id, NONE))

review_task_load_points(p) ==
    /\ At(p, "review_loaded_tasks")
    /\ Step(p, [running[p] EXCEPT !.pc = "review_loaded",
                                  !.points = points])
    /\ UNCHANGED <<tasks, points, today>>

\* the task is looked up and completed, the points are credited in memory
\* and the task list is saved
review_task_save_tasks(p) ==
    /\ At(p, "review_loaded")
    /\ LET local == running[p]
           i == FirstIdx(local.tasks, LAMBDA t : reviewable(t, local.arg))
       IN  IF i = 0
           THEN /\ UNCHANGED tasks
                /\ DoneAs(p, "InvalidTask", 0)
           ELSE LET c == credit(local.points, local.tasks[i].accepted_by_id,
                                local.tasks[i].accepted_by_name)
                IN  /\ tasks' = [local.tasks EXCEPT
                                   ![i].status = "completed"]
                    /\ Step(p, [local EXCEPT
                                  !.pc = "review_saved_tasks",
                                  !.tasks = << >>,
                                  !.points = c.list,
                                  !.value = c.list[c.at].points])
    /\ UNCHANGED <<points, today>>

review_task_save_points(p) ==
    /\ At(p, "review_saved_tasks")
    /\ points' = running[p].points
    /\ DoneAs(p, "Approved", running[p].value)
    /\ UNCHANGED <<tasks, today>>

StoredIds == { tasks[i].task_id : i \in 1..Len(tasks) }

\* Creates that overlap, from the empty store.
MaxOverlapTasks == 3

NextOverlapCreate ==
    \E p \in Slots :
        \/ /\ Len(tasks) < MaxOverlapTasks
           /\ \E s \in Publishers, c \in Contents : create_task_load(p, s, c)
        \/ create_task_generate(p)
        \/ create_task_save(p)

SpecOverlapCreate == Init /\ [][NextOverlapCreate]_vars

\* Claims and submissions that overlap, on one task the publisher has
\* created.
InitPending ==
    /\ tasks = after_creates(1)
    /\ points = << >>
    /\ today = 1
    /\ last = [op |-> "init", caller |-> NONE, arg |-> NoArg,
               reply |-> "none", value |-> 0]
    /\ running = [p \in Slots |-> Idle]

NextOverlapClaim ==
    \E p \in Slots :
        \/ \E s \in OverlapSenders, t \in StoredIds :
               accept_task_load(p, s, t)
        \/ accept_task_save(p)
        \/ \E s \in OverlapSenders, t \in StoredIds :
               user_complete_load(p, s, t)
        \/ user_complete_save(p)

SpecOverlapClaim == InitPending /\ [][NextOverlapClaim]_vars

\* Reviews that overlap, on tasks that wait for review: one task for each
\* of Claimants, created by the publisher, then claimed and submitted by that
\* user.
Claimants ==
    << [id |-> "u1", name |-> "Bob"],
       [id |-> "2195556927", name |-> "Ann"] >>

waiting_review(claimants) ==
    LET made == after_creates(Len(claimants))
    IN  [i \in 1..Len(claimants) |->
            submitted(claimed(made[i], get_user_info(claimants[i])),
                      get_user_info(claimants[i]))]

InitWaiting ==
    /\ tasks = waiting_review(Claimants)
    /\ points = << >>
    /\ today = 1
    /\ last = [op |-> "init", caller |-> NONE, arg |-> NoArg,
               reply |-> "none", value |-> 0]
    /\ running = [p \in Slots |-> Idle]

NextOverlapReview ==
    \E p \in Slots :
        \/ \E s \in Publishers, t \in StoredIds :
               review_task_load_tasks(p, s, t)
        \/ review_task_load_points(p)
        \/ review_task_save_tasks(p)
        \/ review_task_save_points(p)

SpecOverlapReview == InitWaiting /\ [][NextOverlapReview]_vars

----------------------------------------------------------------------------
(* A Review that stops between its two saves (the process ends, or the      *)
(* write of the points file fails): the task list has been saved with the   *)
(* task completed, the points list has not been saved and nothing is        *)
(* replied.                                                                 *)

review_task_stopped_after_points(sender, task_id) ==
    LET i == FirstIdx(tasks, LAMBDA t : reviewable(t, task_id))
    IN  /\ validate_task_id(task_id)
        /\ is_admin(get_user_info(sender))
        /\ i # 0
        /\ points' = credit(points, tasks[i].accepted_by_id,
                            tasks[i].accepted_by_name).list
        /\ last' = Invocation("review_task", sender, task_id, "Stopped", 0)
        /\ UNCHANGED <<tasks, today, running>>

review_task_stopped(sender, task_id) ==
    LET i == FirstIdx(tasks, LAMBDA t : reviewable(t, task_id))
    IN  /\ validate_task_id(task_id)
        /\ is_admin(get_user_info(sender))
        /\ i # 0
        /\ tasks' = [tasks EXCEPT ![i].status = "completed"]
        /\ last' = Invocation("review_task", sender, task_id, "Stopped", 0)
        /\ UNCHANGED <<points, today, running>>

\* Create, Claim, Submit and Review one at a time on the stored tasks, and
\* Reviews that stop.
NextStop ==
    \/ /\ Len(tasks) < MaxTasks
       /\ \E s \in Publishers, c \in Contents : create_task(s, c)
    \/ \E s \in OverlapSenders, t \in StoredIds : accept_task(s, t)
    \/ \E s \in OverlapSenders, t \in StoredIds : user_complete(s, t)
    \/ \E s \in Publishers, t \in StoredIds : review_task(s, t)
    \/ \E s \in Publishers, t \in StoredIds : review_task_stopped(s, t)

SpecStop == Init /\ [][NextStop]_vars

----------------------------------------------------------------------------
(* Properties *)

\* the positions of the stored tasks with the given id
Stored(task_id) == { i \in 1..Len(tasks) : tasks[i].task_id = task_id }

StoredWith(task_id, status) ==
    { i \in Stored(task_id) : tasks[i].status = status }

\* the step is an invocation of the handler op
Invoked(op) == last'.op = op

StoresUnchanged == tasks' = tasks /\ points' = points

\* C1: a task's status changes only by pending -> accepted (Claim),
\* accepted -> pending_review (Submit) or pending_review -> completed
\* (Review), whatever the operation; a completed task keeps its status.
LegalStatusStep(i) ==
    \/ tasks'[i].status = tasks[i].status
    \/ /\ tasks[i].status = "pending"
       /\ tasks'[i].status = "accepted"
       /\ Invoked("accept_task")
    \/ /\ tasks[i].status = "accepted"
       /\ tasks'[i].status = "pending_review"
       /\ Invoked("user_complete")
    \/ /\ tasks[i].status = "pending_review"
       /\ tasks'[i].status = "completed"
       /\ Invoked("review_task")

C1_StatusSteps ==
    [][ /\ Len(tasks') >= Len(tasks)
        /\ \A i \in 1..Len(tasks) :
             /\ tasks'[i].task_id = tasks[i].task_id
             /\ LegalStatusStep(i)
             /\ tasks[i].status = "completed"
                  => tasks'[i].status = "completed" ]_vars

\* a Claim has just been tried on a completed task
C1_Witness ==
    /\ last.op = "accept_task"
    /\ StoredWith(last.arg, "completed") # {}

\* C2 (as claimed): once a Review of task T has succeeded, every later
\* Review of T, by any caller, returns the "not valid" error and changes
\* neither collection.
ReviewOfCompleted ==
    Invoked("review_task") /\ StoredWith(last'.arg, "completed") # {}

C2_AnyCallerNotValid ==
    [][ ReviewOfCompleted
          => last'.reply = "InvalidTask" /\ StoresUnchanged ]_vars

\* C2 (amended): once a Review of task T has succeeded, every later Review
\* of T changes neither collection; it returns the "not valid" error to an
\* admin and Forbidden to any other caller.
C2_ReviewOnce ==
    [][ ReviewOfCompleted
          => /\ StoresUnchanged
             /\ last'.reply = IF last'.caller \in admin_list
                              THEN "InvalidTask" ELSE "Forbidden" ]_vars

\* an admin has just reviewed a completed task again: "not valid", and the
\* claimant still has the one credit
C2_Witness ==
    /\ last.op = "review_task"
    /\ last.reply = "InvalidTask"
    /\ \E i \in StoredWith(last.arg, "completed") :
         \E p \in 1..Len(points) :
            /\ points[p].user_id = tasks[i].accepted_by_id
            /\ points[p].points = REWARD

\* C3 (as claimed): a task becomes completed, and a balance is created or
\* increased, only by a Review of an admin; a Review of a non-admin returns
\* Forbidden and changes neither collection.
Completes ==
    \E i \in 1..Len(tasks') :
        /\ tasks'[i].status = "completed"
        /\ i <= Len(tasks) => tasks[i].status # "completed"

Credits ==
    \E p \in 1..Len(points') :
        p <= Len(points) => points'[p].points > points[p].points

AdminReview == Invoked("review_task") /\ last'.caller \in admin_list

NonAdminReview == Invoked("review_task") /\ last'.caller \notin admin_list

C3_NonAdminForbidden ==
    [][ /\ (Completes \/ Credits) => AdminReview
        /\ NonAdminReview
             => last'.reply = "Forbidden" /\ StoresUnchanged ]_vars

\* C3 (amended): a task becomes completed, and a balance is created or
\* increased, only by a Review of an admin; a Review of a non-admin changes
\* neither collection and returns Forbidden if the id is well-formed, the
\* invalid-id-format error if it is not.
C3_OnlyAdminReview ==
    [][ /\ (Completes \/ Credits) => AdminReview
        /\ NonAdminReview
             => /\ StoresUnchanged
                /\ last'.reply = IF validate_task_id(last'.arg)
                                 THEN "Forbidden" ELSE "BadIdFormat" ]_vars

\* a non-admin has just been refused the Review of a task that is waiting
\* for its review
C3_Witness ==
    /\ last.op = "review_task"
    /\ last.caller \notin admin_list
    /\ last.reply = "Forbidden"
    /\ StoredWith(last.arg, "pending_review") # {}

\* C4: every stored task has accepted_by_id null iff its status is pending.
C4_ClaimantIffNotPending ==
    \A i \in 1..Len(tasks) :
        (tasks[i].accepted_by_id = NONE) <=> (tasks[i].status = "pending")

\* a store with a pending task next to a completed one
C4_Witness ==
    \E i, j \in 1..Len(tasks) :
        /\ tasks[i].status = "pending"
        /\ tasks[j].status = "completed"
        /\ tasks[j].accepted_by_id # NONE

TaskIds(stored) == { stored[i].task_id : i \in 1..Len(stored) }

\* C5: no two stored tasks have the same task_id.
C5_UniqueTaskIds == Cardinality(TaskIds(tasks)) = Len(tasks)

\* C6: on a day that started with no stored task, the k-th Create yields the
\* day's MMDD followed by k as exactly three digits, and the help command
\* stores nothing (so it consumes no sequence number).
IsDaySequenceId(task_id, now, k) ==
    /\ Len(task_id) = 4 + 3
    /\ slice_to(task_id, 4) = strftime_md(now)
    /\ isdigit(slice_from(task_id, 4))
    /\ int(slice_from(task_id, 4)) = k

C6_DaySequence ==
    [][ /\ Invoked("create_task")
             => /\ IsDaySequenceId(last'.value, Days[today], Len(tasks) + 1)
                /\ tasks'[Len(tasks')].task_id = last'.value
        /\ Invoked("show_help") => tasks' = tasks ]_vars

\* C7: a Claim with a well-formed id that no pending task has returns
\* NotClaimable and leaves the task collection as it is.
C7_ClaimNoOp ==
    [][ ( /\ Invoked("accept_task")
          /\ validate_task_id(last'.arg)
          /\ StoredWith(last'.arg, "pending") = {} )
          => last'.reply = "NotClaimable" /\ tasks' = tasks ]_vars

\* a Claim has just been refused on a task another user holds
C7_Witness ==
    /\ last.op = "accept_task"
    /\ last.reply = "NotClaimable"
    /\ \E i \in StoredWith(last.arg, "accepted") :
         tasks[i].accepted_by_id # last.caller

\* C8 (as claimed): for every stored task, Submit moves it to pending_review
\* only for the caller who is its claimant; every other caller receives
\* NotYourTask and the task collection is unchanged.
SubmitMoves(i) ==
    tasks'[i].status # tasks[i].status
        => /\ tasks'[i].status = "pending_review"
           /\ last'.caller = tasks[i].accepted_by_id

C8_OthersNotYourTask ==
    [][ Invoked("user_complete")
          => \A i \in Stored(last'.arg) :
               /\ SubmitMoves(i)
               /\ last'.caller # tasks[i].accepted_by_id
                    => last'.reply = "NotYourTask" /\ tasks' = tasks ]_vars

\* C8 (amended): for every stored task, Submit moves it to pending_review
\* only for the caller who is its claimant; on a task whose status is
\* accepted every other caller receives NotYourTask, on a task of any other
\* status every caller receives the "not valid" error, and in both cases the
\* task collection is unchanged.
C8_SubmitOnlyClaimant ==
    [][ Invoked("user_complete")
          => \A i \in Stored(last'.arg) :
               /\ SubmitMoves(i)
               /\ ( /\ tasks[i].status = "accepted"
                    /\ last'.caller # tasks[i].accepted_by_id )
                    => last'.reply = "NotYourTask" /\ tasks' = tasks
               /\ tasks[i].status # "accepted"
                    => last'.reply = "InvalidTask" /\ tasks' = tasks ]_vars

\* the publisher has just been refused the Submit of a task another user
\* holds
C8_Witness ==
    /\ last.op = "user_complete"
    /\ last.reply = "NotYourTask"
    /\ \E i \in StoredWith(last.arg, "accepted") :
         /\ tasks[i].publisher_id = last.caller
         /\ tasks[i].accepted_by_id # last.caller

\* C9: task_id, publisher_id, publisher_name and content of a stored task
\* never change, and accepted_by_id and accepted_by_name never change once
\* they are set.
C9_IdentityImmutable ==
    [][ /\ Len(tasks') >= Len(tasks)
        /\ \A i \in 1..Len(tasks) :
             /\ tasks'[i].task_id = tasks[i].task_id
             /\ tasks'[i].publisher_id = tasks[i].publisher_id
             /\ tasks'[i].publisher_name = tasks[i].publisher_name
             /\ tasks'[i].content = tasks[i].content
             /\ tasks[i].accepted_by_id # NONE
                  => tasks'[i].accepted_by_id = tasks[i].accepted_by_id
             /\ tasks[i].accepted_by_name # NONE
                  => tasks'[i].accepted_by_name = tasks[i].accepted_by_name
      ]_vars

\* the publisher has just tried to claim a task that went through Claim,
\* Submit and Review in another user's hands
C9_Witness ==
    /\ last.op = "accept_task"
    /\ \E i \in StoredWith(last.arg, "completed") :
         /\ tasks[i].publisher_id = last.caller
         /\ tasks[i].accepted_by_id \notin {NONE, last.caller}

\* C10: a successful Review appends a record with points = reward and the
\* task's accepted_by_name if the claimant has no record, and otherwise adds
\* reward to the claimant's record without changing its name; all other
\* records are unchanged and the reported total is the stored total.
RecordsOf(balances, user_id) ==
    { p \in 1..Len(balances) : balances[p].user_id = user_id }

CreditedAsClaimed(i) ==
    LET completer_id == tasks[i].accepted_by_id
        known == RecordsOf(points, completer_id)
    IN  IF known = {}
        THEN /\ points' = Append(points,
                              [user_id |-> completer_id,
                               name |-> tasks[i].accepted_by_name,
                               points |-> REWARD])
             /\ last'.value = REWARD
        ELSE /\ Len(points') = Len(points)
             /\ \E p \in known :
                  /\ points'[p].points = points[p].points + REWARD
                  /\ points'[p].name = points[p].name
                  /\ points'[p].user_id = points[p].user_id
                  /\ last'.value = points'[p].points
                  /\ \A q \in (1..Len(points)) \ {p} :
                       points'[q] = points[q]

C10_Credit ==
    [][ (Invoked("review_task") /\ last'.reply = "Approved")
          => \E i \in StoredWith(last'.arg, "pending_review") :
               /\ tasks'[i].status = "completed"
               /\ CreditedAsClaimed(i) ]_vars

\* a user with a record has just been credited for a task claimed under
\* another name; the record keeps its name and holds two rewards
C10_Witness ==
    /\ last.op = "review_task"
    /\ last.reply = "Approved"
    /\ last.value = 2 * REWARD
    /\ \E i \in StoredWith(last.arg, "completed") :
         \E p \in 1..Len(points) :
            /\ points[p].user_id = tasks[i].accepted_by_id
            /\ points[p].points = 2 * REWARD
            /\ points[p].name # tasks[i].accepted_by_name

\* C11: every stored points value is a non-negative integer, and from one
\* persisted state of the points collection to the next no user's points
\* decrease and no balance record disappears, also when Review invocations
\* overlap in their load and save steps.
KeepsBalances ==
    \A p \in 1..Len(points) :
        \E q \in 1..Len(points') :
            /\ points'[q].user_id = points[p].user_id
            /\ points'[q].points >= points[p].points

C11_PointsMonotone ==
    [][ /\ \A q \in 1..Len(points') : points'[q].points \in Nat
        /\ KeepsBalances ]_vars

\* C12: no two balance records of the persisted points collection have the
\* same user_id, whatever Reviews have run since the collection was empty
\* and however their load and save steps overlap.
C12_UniqueUserIds ==
    \A p \in 1..Len(points), q \in 1..Len(points) :
        points[p].user_id = points[q].user_id => p = q

Told(p, op, reply) ==
    /\ At(p, "idle")
    /\ running[p].op = op
    /\ running[p].reply = reply

\* two overlapping Reviews of the same task have each credited its claimant
\* in a list that did not hold the claimant, and both have saved
C12_Witness ==
    /\ Told(1, "review_task", "Approved")
    /\ Told(2, "review_task", "Approved")
    /\ running[1].arg = running[2].arg
    /\ running[1].value = REWARD
    /\ running[2].value = REWARD
    /\ \E i \in StoredWith(running[1].arg, "completed") :
           Cardinality(RecordsOf(points, tasks[i].accepted_by_id)) = 1

\* C13: the my-points query replies the stored points of the caller, or 0
\* when the points collection has no record for the caller, and leaves both
\* collections as they were: it creates no record.
C13_MyPoints ==
    [][ Invoked("check_points")
          => /\ StoresUnchanged
             /\ last'.reply = "MyPoints"
             /\ IF RecordsOf(points, last'.caller) = {}
                THEN last'.value = 0
                ELSE \A p \in RecordsOf(points, last'.caller) :
                         last'.value = points[p].points ]_vars

\* a caller without a record has asked for their points while another user
\* holds a record
C13_Witness ==
    /\ last.op = "check_points"
    /\ last.value = 0
    /\ points # << >>
    /\ RecordsOf(points, last.caller) = {}

\* C14: whatever the points collection holds, the leaderboard is at most
\* TOP_N entries: the first TOP_N (or all, if fewer) of the records taken by
\* points, largest first, records of equal points in their storage order.
\* The place of record i in that order is one more than the number of
\* records that have more points, or as many and an earlier place in the
\* collection.
Place(i) ==
    1 + Cardinality({ j \in 1..Len(points) :
                        \/ points[j].points > points[i].points
                        \/ /\ points[j].points = points[i].points
                           /\ j < i })

C14_Leaderboard ==
    last.op = "points_rank"
        => /\ Len(last.value) = IF Len(points) < TOP_N THEN Len(points)
                                ELSE TOP_N
           /\ \A i \in 1..Len(points) :
                  Place(i) <= TOP_N => last.value[Place(i)] = points[i]

\* the board is full and its last entry has as many points as a record left
\* out, which was stored later
C14_Witness ==
    /\ last.op = "points_rank"
    /\ Len(points) > TOP_N
    /\ \E i \in 1..Len(points) :
           /\ Place(i) > TOP_N
           /\ points[i].points = last.value[TOP_N].points

\* C15: validate_task_id accepts exactly the strings of seven decimal digits
\* whose first two digits are a month in 1..12 and whose next two are a day
\* in 1..31, and it accepts the id of every task Create has stored.
IdCandidates ==
    { << "0", "7", "1", "5", "0", "0", "1" >>,
      << "1", "2", "3", "1", "9", "9", "9" >>,
      << "0", "1", "0", "1", "0", "0", "0" >>,
      << "0", "0", "1", "5", "0", "0", "1" >>,
      << "1", "3", "1", "5", "0", "0", "1" >>,
      << "0", "7", "0", "0", "0", "0", "1" >>,
      << "0", "7", "3", "2", "0", "0", "1" >>,
      << "0", "7", "1", "5", "0", "0" >>,
      << "0", "7", "1", "5", "1", "0", "0", "0" >>,
      << "0", "7", "1", "5", "0", "0", "x" >>,
      << "a", "7", "1", "5", "0", "0", "1" >>,
      << "0", "7", "-", "5", "0", "0", "1" >>,
      << >> }

TwoDigits(task_id, at) == 10 * DigitVal(task_id[at]) + DigitVal(task_id[at + 1])

WellFormedId(task_id) ==
    /\ Len(task_id) = 7
    /\ \A k \in 1..Len(task_id) : task_id[k] \in DigitSet
    /\ TwoDigits(task_id, 1) \in 1..12
    /\ TwoDigits(task_id, 3) \in 1..31

ValidatorExact ==
    \A task_id \in IdCandidates \cup TaskIds(tasks) :
        validate_task_id(task_id) <=> WellFormedId(task_id)

C15_CreatedIdsAccepted ==
    /\ ValidatorExact
    /\ \A i \in 1..Len(tasks) : validate_task_id(tasks[i].task_id)

\* C16: two Creates that overlap can compute the same id.  A Create takes
\* its id from the task file as it is when the id is generated, whatever id
\* another Create holds and has not saved yet; it then stores a task under
\* that id whatever the file holds by then, and tells the caller the id: no
\* error is reported.
Generates(p) == At(p, "create_loaded") /\ running'[p].pc = "create_generated"

Saves(p, pc) == At(p, pc) /\ running'[p].pc # pc

C16_SilentCollision ==
    [][ \A p \in Slots :
          /\ Generates(p)
               => running'[p].task_id = generate_task_id(tasks, Days[today])
          /\ Saves(p, "create_generated")
               => /\ running'[p].pc = "idle"
                  /\ running'[p].reply = "Created"
                  /\ running'[p].value = running[p].task_id
                  /\ Len(tasks') = Len(running[p].tasks) + 1
                  /\ tasks'[Len(tasks')].task_id = running[p].task_id ]_vars

\* two callers have been told the same id, and the task collection holds
\* two tasks under it
C16_Witness ==
    /\ Told(1, "create_task", "Created")
    /\ Told(2, "create_task", "Created")
    /\ running[1].value = running[2].value
    /\ Cardinality({ i \in 1..Len(tasks) :
                       tasks[i].task_id = running[1].value }) = 2

\* C17: two mutations of a collection that overlap can lose an update.  An
\* invocation decides from the list it loaded and saves that list with its
\* own change, whatever the file holds by then: what another invocation has
\* saved since the load is overwritten, though that invocation has reported
\* success.
FromSnapshot(p, status) ==
    \E i \in 1..Len(running[p].tasks) :
        /\ running[p].tasks[i].task_id = running[p].arg
        /\ tasks' = [running[p].tasks EXCEPT ![i] = tasks'[i]]
        /\ tasks'[i].status = status
        /\ tasks'[i].accepted_by_id = running[p].caller

PendingInSnapshot(p) ==
    \E i \in 1..Len(running[p].tasks) :
        /\ running[p].tasks[i].task_id = running[p].arg
        /\ running[p].tasks[i].status = "pending"

C17_LostUpdate ==
    [][ \A p \in Slots :
          /\ Saves(p, "accept_loaded")
               => /\ running'[p].reply = "Accepted" <=> PendingInSnapshot(p)
                  /\ running'[p].reply = "Accepted"
                       => FromSnapshot(p, "accepted")
                  /\ running'[p].reply # "Accepted" => tasks' = tasks
          /\ Saves(p, "complete_loaded")
               => /\ running'[p].reply = "Submitted"
                       => FromSnapshot(p, "pending_review")
                  /\ running'[p].reply # "Submitted" => tasks' = tasks ]_vars

\* two users have both been told that they have claimed the same task; the
\* collection holds the claim of the second and nothing of the first
C17_Witness ==
    /\ Told(1, "accept_task", "Accepted")
    /\ Told(2, "accept_task", "Accepted")
    /\ running[1].arg = running[2].arg
    /\ running[1].caller # running[2].caller
    /\ \E i \in StoredWith(running[1].arg, "accepted") :
           tasks[i].accepted_by_id = running[2].caller

\* C18: migration is idempotent.  Whatever fields the records of the task
\* collection have, a migration run that follows another changes no record
\* and saves nothing; a run turns a record that has accepted_by and no
\* accepted_by_id into one with accepted_by_id the legacy value,
\* accepted_by_name the placeholder and no accepted_by, and leaves the other
\* fields of every record as they are.
Has(t, f) == f \in DOMAIN t

Migrated(old, new) ==
    /\ Has(new, "publisher_name")
    /\ IF Has(old, "accepted_by") /\ ~Has(old, "accepted_by_id")
       THEN /\ ~Has(new, "accepted_by")
            /\ new["accepted_by_id"] = old["accepted_by"]
            /\ new["accepted_by_name"] = LEGACY_USER
       ELSE \A f \in {"accepted_by", "accepted_by_id", "accepted_by_name"} :
                /\ Has(new, f) <=> Has(old, f)
                /\ Has(old, f) => new[f] = old[f]
    /\ IF Has(old, "publisher_name")
       THEN new["publisher_name"] = old["publisher_name"]
       ELSE new["publisher_name"] = LEGACY_PUBLISHER
    /\ \A f \in (DOMAIN old) \ OptionalFields : Has(new, f) /\ new[f] = old[f]
    /\ DOMAIN new \subseteq (DOMAIN old) \cup OptionalFields

C18_MigrateIdempotent ==
    [][ Invoked("migrate_old_data")
          => /\ Len(tasks') = Len(tasks)
             /\ \A i \in 1..Len(tasks) : Migrated(tasks[i], tasks'[i])
             /\ last'.reply = "NotSaved" => tasks' = tasks
             /\ last.op = "migrate_old_data"
                  => tasks' = tasks /\ last'.reply = "NotSaved" ]_vars

\* migration has run again on a record it had transformed, and has saved
\* nothing
C18_Witness ==
    /\ last.op = "migrate_old_data"
    /\ last.reply = "NotSaved"
    /\ \E i \in 1..Len(tasks) :
           /\ ~Has(tasks[i], "accepted_by")
           /\ Has(tasks[i], "accepted_by_id")
           /\ tasks[i]["accepted_by_id"] = legacy_task["accepted_by"]
           /\ tasks[i]["accepted_by_name"] = LEGACY_USER

\* C19: Review checks the shape of the id, then the caller's authorization,
\* then the task.  A malformed id gets the format error from every caller; a
\* well-formed id from a caller who is no administrator gets Forbidden,
\* whether or not a task with that id waits for review; only an
\* administrator with a well-formed id gets the invalid-task error; in all
\* three cases both collections stay as they are.
ReviewErrors == {"BadIdFormat", "Forbidden", "InvalidTask"}

C19_ReviewCheckOrder ==
    [][ Invoked("review_task")
          => /\ ~validate_task_id(last'.arg) => last'.reply = "BadIdFormat"
             /\ ( /\ validate_task_id(last'.arg)
                  /\ last'.caller \notin admin_list )
                   => last'.reply = "Forbidden"
             /\ last'.reply = "InvalidTask"
                   => /\ validate_task_id(last'.arg)
                      /\ last'.caller \in admin_list
                      /\ StoredWith(last'.arg, "pending_review") = {}
             /\ last'.reply \in ReviewErrors => StoresUnchanged ]_vars

\* a caller who is no administrator has sent a malformed id while a task
\* waits for review, and has been told of the format, not of the permission
C19_Witness ==
    /\ last.op = "review_task"
    /\ last.caller \notin admin_list
    /\ ~validate_task_id(last.arg)
    /\ last.reply = "BadIdFormat"
    /\ \E i \in 1..Len(tasks) : tasks[i].status = "pending_review"

\* C20: the ledger is conserved.  While Create, Claim, Submit and Review run
\* to completion one at a time from empty collections, a user has a balance
\* record exactly when a completed task has the user as accepted_by_id, and
\* the balance is REWARD times the number of those tasks.  A Review that
\* stops between its two saves leaves its task completed and its claimant
\* one REWARD short, and no operation after it makes up what a user is owed.
Users == { s.id : s \in Senders }

CompletedBy(stored, u) ==
    { i \in 1..Len(stored) :
        stored[i].status = "completed" /\ stored[i].accepted_by_id = u }

Balance(balances, u) ==
    IF RecordsOf(balances, u) = {} THEN 0
    ELSE balances[CHOOSE p \in RecordsOf(balances, u) : TRUE].points

Owed(stored, balances, u) ==
    REWARD * Cardinality(CompletedBy(stored, u)) - Balance(balances, u)

Conserved(stored, balances) ==
    /\ \A p \in 1..Len(balances) : balances[p].user_id \in Users
    /\ \A u \in Users :
          /\ RecordsOf(balances, u) # {} <=> CompletedBy(stored, u) # {}
          /\ Cardinality(RecordsOf(balances, u)) <= 1
          /\ Owed(stored, balances, u) = 0

Stopped == Invoked("review_task") /\ last'.reply = "Stopped"

C20_Ledger ==
    /\ Conserved(tasks, points)
    /\ [][ /\ (Conserved(tasks, points) /\ ~Stopped)
                => Conserved(tasks', points')
           /\ \A u \in Users :
                  Owed(tasks', points', u) >= Owed(tasks, points, u)
           /\ Stopped
                => \E i \in StoredWith(last'.arg, "pending_review") :
                       /\ tasks'[i].status = "completed"
                       /\ points' = points
                       /\ Owed(tasks', points', tasks[i].accepted_by_id)
                            = Owed(tasks, points, tasks[i].accepted_by_id)
                                + REWARD ]_vars

\* a Review of a user's task has stopped, a later Review has credited the
\* same user for another task, and the user is still owed the first reward
C20_Witness ==
    /\ last.op = "review_task"
    /\ last.reply = "Approved"
    /\ \E u \in Users :
           /\ Cardinality(CompletedBy(tasks, u)) = 2
           /\ Balance(points, u) = REWARD
           /\ Owed(tasks, points, u) = REWARD

====
